---- MODULE Spec2Model ----
(***************************************************************************)
(* A model of go-spring's dynamic value holders (spring-core/dync), of the  *)
(* argument resolver (spring-core/core/arg.go) and of the SpringBoot        *)
(* application's Start and ShutDown.                                       *)
(*                                                                         *)
(*   Spec        one goroutine calling Value / Validate / Refresh          *)
(*   SpecConc    NProcs goroutines interleaving the same calls             *)
(*   SpecArg     NewArgList followed by ArgList.Get                        *)
(*   SpecOption  NewOptionArg and WithCondition                            *)
(*   SpecApp     the user's setup, then Start, then ShutDown               *)
(***************************************************************************)
EXTENDS Integers, Sequences, FiniteSets, TLC

VARIABLES
    kind,       \* the holder's cell type: "bool" (dync.Bool) or "int32" (dync.Int32)
    v,          \* the atomic cell: Bool.v
    last,       \* history: the call that has just returned
    refreshed,  \* history: some Refresh has stored a value
    pc,         \* SpecConc: where each goroutine is inside its call
    loc,        \* SpecConc: each goroutine's local b and err
    okRefresh,  \* SpecConc history: values bound by a Refresh whose Bind succeeded
    observed,   \* SpecConc history: the results Value() has returned
    curArgList,    \* SpecArg: the ArgList under resolution
    got,        \* SpecArg: what ArgList.Get did
    made,       \* SpecOption: the OptionArgs that exist
    attempt,    \* SpecOption history: the constructor call that has just ended
    appIn,      \* SpecApp: os.Args, os.Environ(), the config files, the user's setup, the beans
    appPc,      \* SpecApp: where the application is in Start / ShutDown
    props,      \* SpecApp: the ApplicationContext's properties
    profile,    \* SpecApp: the ApplicationContext's profile
    appLog,     \* SpecApp history: the calls Start and ShutDown have made, in order
    collected,  \* SpecApp: runners / eventBeans, the slice CollectBeans has filled
    idx,        \* SpecApp: the position of the range loop over collected
    closed,     \* SpecApp: the beans whose destructor Close has run
    pending     \* SpecApp: the asynchronous work of beans that has not completed

vars == <<kind, v, last, refreshed, pc, loc, okRefresh, observed, curArgList, got,
          made, attempt, appIn, appPc, props, profile, appLog, collected, idx, closed,
          pending>>

dyncVars == <<kind, v, last, refreshed>>
concVars == <<pc, loc, okRefresh, observed>>
argVars == <<curArgList, got>>
optVars == <<made, attempt>>
appVars == <<appIn, appPc, props, profile, appLog, collected, idx, closed, pending>>

(***************************************************************************)
(* conf.Properties and conf.BindParam                                      *)
(***************************************************************************)
Kinds == {"bool", "int32"}

Keys == {"int", "flag"}

Absent == "<absent>"

\* The raw property values a source may hold under a key.
RawVals == {"true", "false", "3", "7", "2147483648"}

\* conf.Map(...) followed by p.Set(...): every content a source can have.
PropSources == [Keys -> RawVals \cup {Absent}]

Nil == "nil"

Exprs(k) == IF k = "int32" THEN {"", "$>5"} ELSE {""}

\* BindParam{Key, Tag: ParsedTag{Key, Def, HasDef}, Validate}
BindParams(k) ==
    [Key : Keys, HasDef : {FALSE}, Def : {""}, Validate : Exprs(k)]
        \cup [Key : Keys, HasDef : {TRUE}, Def : {"7", "true"}, Validate : Exprs(k)]

Zero(k) == IF k = "bool" THEN FALSE ELSE 0

\* Coercion of a raw value into the cell type: [ok, val].
Coerce(k, raw) ==
    IF k = "bool"
    THEN CASE raw = "true" -> [ok |-> TRUE, val |-> TRUE]
           [] raw = "false" -> [ok |-> TRUE, val |-> FALSE]
           [] OTHER -> [ok |-> FALSE, val |-> FALSE]
    ELSE CASE raw = "3" -> [ok |-> TRUE, val |-> 3]
           [] raw = "7" -> [ok |-> TRUE, val |-> 7]
           [] OTHER -> [ok |-> FALSE, val |-> 0]   \* not a number, or out of int32's range

\* The post-bind validation expression, evaluated on the coerced value.
ValidateExpr(expr, val) ==
    CASE expr = "" -> TRUE
      [] expr = "$>5" -> val > 5

\* p.Bind(&b, conf.Param(param)): the value left in b and the error returned.
\* b starts at the zero value; a failed validation leaves the coerced value in b.
Bind(k, p, param) ==
    LET raw == IF p[param.Key] # Absent THEN p[param.Key]
               ELSE IF param.HasDef THEN param.Def ELSE Absent
    IN  IF raw = Absent
        THEN [b |-> Zero(k), err |-> "PropertyNotFoundError"]
        ELSE LET c == Coerce(k, raw)
             IN  IF ~c.ok
                 THEN [b |-> Zero(k), err |-> "BindError"]
                 ELSE IF ~ValidateExpr(param.Validate, c.val)
                      THEN [b |-> c.val, err |-> "ValidationError"]
                      ELSE [b |-> c.val, err |-> Nil]

(***************************************************************************)
(* dync.Bool, one caller                                                   *)
(***************************************************************************)
NoSource == [key \in Keys |-> Absent]

NoParam == [Key |-> "int", HasDef |-> FALSE, Def |-> "", Validate |-> ""]

\* The record of a call that has returned: its inputs, its error, the cell before it,
\* Value()'s result, whether it repeats the call before it (rep), whether it is a
\* Refresh directly after a Validate of the same inputs (dry), and in both cases
\* that earlier call's error (perr).
Call(op, p, param, err, before, ret) ==
    LET same == last.p = p /\ last.param = param
        rep == last.op = op /\ same
        dry == last.op = "Validate" /\ op = "Refresh" /\ same
    IN  [op |-> op, p |-> p, param |-> param, err |-> err, before |-> before, ret |-> ret,
         rep |-> rep, dry |-> dry, perr |-> IF rep \/ dry THEN last.err ELSE Nil]

\* func (x *Bool) Value() bool
Load == v

Value ==
    /\ last' = Call("Value", NoSource, NoParam, Nil, v, Load)
    /\ UNCHANGED <<kind, v, refreshed>>

\* func (x *Bool) Validate(p, param) error
ValidateStoresBound(p, param) ==
    LET r == Bind(kind, p, param)
    IN  /\ v' = r.b
        /\ last' = Call("Validate", p, param, r.err, v, r.b)
        /\ UNCHANGED <<kind, refreshed>>

ValidateSkipsExpr(p, param) ==
    LET r == Bind(kind, p, [param EXCEPT !.Validate = ""])
    IN  /\ last' = Call("Validate", p, param, r.err, v, Zero(kind))
        /\ UNCHANGED <<kind, v, refreshed>>

Validate(p, param) ==
    LET r == Bind(kind, p, param)
    IN  /\ last' = Call("Validate", p, param, r.err, v, Zero(kind))
        /\ UNCHANGED <<kind, v, refreshed>>

\* func (x *Bool) Refresh(p, param) error
RefreshStoresOnError(p, param) ==
    LET r == Bind(kind, p, param)
    IN  /\ v' = r.b
        /\ refreshed' = TRUE
        /\ last' = Call("Refresh", p, param, r.err, v, Zero(kind))
        /\ UNCHANGED kind

RefreshDropsError(p, param) ==
    LET r == Bind(kind, p, param)
    IN  /\ IF r.err # Nil
           THEN UNCHANGED <<v, refreshed>>
           ELSE v' = r.b /\ refreshed' = TRUE
        /\ last' = Call("Refresh", p, param, Nil, v, Zero(kind))
        /\ UNCHANGED kind

RefreshKeepsFirst(p, param) ==
    LET r == Bind(kind, p, param)
    IN  /\ IF r.err # Nil
           THEN UNCHANGED <<v, refreshed>> /\ last' = Call("Refresh", p, param, r.err, v, Zero(kind))
           ELSE IF refreshed
                THEN UNCHANGED <<v, refreshed>>
                     /\ last' = Call("Refresh", p, param, "AlreadyBound", v, Zero(kind))
                ELSE v' = r.b /\ refreshed' = TRUE
                     /\ last' = Call("Refresh", p, param, Nil, v, Zero(kind))
        /\ UNCHANGED kind

Refresh(p, param) ==
    LET r == Bind(kind, p, param)
    IN  /\ IF r.err # Nil
           THEN UNCHANGED <<v, refreshed>>
           ELSE v' = r.b /\ refreshed' = TRUE
        /\ last' = Call("Refresh", p, param, r.err, v, Zero(kind))
        /\ UNCHANGED kind

DyncInit ==
    /\ kind \in Kinds
    /\ v = Zero(kind)
    /\ refreshed = FALSE
    /\ last = [op |-> "new", p |-> NoSource, param |-> NoParam, err |-> Nil,
               before |-> Zero(kind), ret |-> Zero(kind), rep |-> FALSE, dry |-> FALSE,
               perr |-> Nil]

ConcIdle ==
    /\ pc = <<>>
    /\ loc = <<>>
    /\ okRefresh = {}
    /\ observed = {}

ArgIdle ==
    /\ curArgList = <<>>
    /\ got = <<>>

OptIdle ==
    /\ made = {}
    /\ attempt = <<>>

AppIdle ==
    /\ appIn = <<>>
    /\ appPc = "none"
    /\ props = <<>>
    /\ profile = ""
    /\ appLog = <<>>
    /\ collected = <<>>
    /\ idx = 0
    /\ closed = {}
    /\ pending = 0

Init == DyncInit /\ ConcIdle /\ ArgIdle /\ OptIdle /\ AppIdle

Next ==
    \/ Value /\ UNCHANGED concVars /\ UNCHANGED argVars /\ UNCHANGED optVars /\ UNCHANGED appVars
    \/ \E p \in PropSources, param \in BindParams(kind) :
          Validate(p, param) /\ UNCHANGED concVars /\ UNCHANGED argVars /\ UNCHANGED optVars /\ UNCHANGED appVars
    \/ \E p \in PropSources, param \in BindParams(kind) :
          Refresh(p, param) /\ UNCHANGED concVars /\ UNCHANGED argVars /\ UNCHANGED optVars /\ UNCHANGED appVars

Spec == Init /\ [][Next]_vars

(***************************************************************************)
(* Properties of the holder under one caller (Spec)                        *)
(***************************************************************************)
\* What a successful bind yields, read directly off the source: the value under the
\* parameter's key, or the tag's default when the key is absent.
ValueAtKey(p, param) ==
    Coerce(kind, IF p[param.Key] # Absent THEN p[param.Key] ELSE param.Def).val

KeyMissing(p, param) == p[param.Key] = Absent /\ ~param.HasDef

\* C1: Validate never changes the stored value, whether it returns nil or an error:
\* Value() after the call equals Value() before it, and on a holder that no Refresh
\* has stored into it is still the zero value.
C1_ValidateKeepsValue ==
    last.op = "Validate" =>
        /\ Load = last.before
        /\ (~refreshed => Load = Zero(kind))

\* A Validate that accepted a value different from the stored one.
C1_Witness ==
    /\ last.op = "Validate"
    /\ last.err = Nil
    /\ ValueAtKey(last.p, last.param) # Load

\* C2: Refresh replaces the stored value only on success: on a binding or validation
\* failure it returns that error and the value is the one before the call; on
\* success it returns nil and the value is the one bound at the parameter's key.
C2_RefreshOnlyOnSuccess ==
    last.op = "Refresh" =>
        /\ last.err = Bind(kind, last.p, last.param).err
        /\ (last.err # Nil => Load = last.before)
        /\ (last.err = Nil => Load = ValueAtKey(last.p, last.param))

\* A Refresh rejected by the validation expression after an earlier one stored a value.
C2_Witness ==
    /\ last.op = "Refresh"
    /\ last.err = "ValidationError"
    /\ refreshed
    /\ Load # Zero(kind)

\* C4: with the key absent from the source and no default in the tag, Validate and
\* Refresh both return the property-not-found error and leave the value alone: a
\* holder that was never refreshed still returns the zero value.
C4_MissingProperty ==
    (last.op \in {"Validate", "Refresh"} /\ KeyMissing(last.p, last.param)) =>
        /\ last.err = "PropertyNotFoundError"
        /\ Load = last.before
        /\ (~refreshed => Load = Zero(kind))

\* A Refresh on a missing key directly after a Validate on the same missing key,
\* on a fresh holder.
C4_Witness ==
    /\ last.op = "Refresh"
    /\ KeyMissing(last.p, last.param)
    /\ last.err = "PropertyNotFoundError"
    /\ ~refreshed

\* C5: Refresh is idempotent under identical input: a Refresh directly after a
\* Refresh with the same source and parameter returns what the first returned (nil
\* after nil) and leaves the value the first one left.
C5_RefreshIdempotent ==
    (last.op = "Refresh" /\ last.rep) =>
        /\ last.err = last.perr
        /\ Load = last.before

\* C18: Validate is a dry run of Refresh: a Refresh directly after a Validate of
\* the same source and parameter returns an error exactly when that Validate did,
\* and after a Validate that returned nil it stores the validated value.
C18_ValidateIsDryRun ==
    (last.op = "Refresh" /\ last.dry) =>
        /\ (last.err = Nil <=> last.perr = Nil)
        /\ last.err = last.perr
        /\ (last.perr = Nil => Load = ValueAtKey(last.p, last.param))

\* A Refresh directly after a Validate that accepted a value the holder did not hold.
C18_Witness ==
    /\ last.op = "Refresh"
    /\ last.dry
    /\ last.perr = Nil
    /\ Load # last.before

\* The second of two identical successful Refreshes, storing a non-zero value.
C5_Witness ==
    /\ last.op = "Refresh"
    /\ last.rep
    /\ last.perr = Nil
    /\ last.err = Nil
    /\ Load # Zero(kind)

(***************************************************************************)
(* dync.Bool, NProcs goroutines on one holder (SpecConc).  A call is split *)
(* where another goroutine can run between its steps: Bind works on the    *)
(* goroutine's own b, v.Load() and v.Store(b) are single atomic steps.     *)
(***************************************************************************)
NProcs == 2

Procs == 1..NProcs

NoLocal == [b |-> Zero(kind), err |-> Nil]

\* Value(): return x.v.Load()
ValueLoad(i) ==
    /\ pc[i] = "idle"
    /\ observed' = observed \cup {v}
    /\ UNCHANGED <<kind, v, last, refreshed, pc, loc, okRefresh>>

\* Validate: var b bool; p.Bind(&b, ...)
ValidateBind(i, p, param) ==
    /\ pc[i] = "idle"
    /\ pc' = [pc EXCEPT ![i] = "validate"]
    /\ loc' = [loc EXCEPT ![i] = Bind(kind, p, param)]
    /\ UNCHANGED <<kind, v, last, refreshed, okRefresh, observed>>

\* Validate: return err
ValidateReturnStores(i) ==
    /\ pc[i] = "validate"
    /\ v' = loc[i].b
    /\ pc' = [pc EXCEPT ![i] = "idle"]
    /\ loc' = [loc EXCEPT ![i] = NoLocal]
    /\ UNCHANGED <<kind, last, refreshed, okRefresh, observed>>

ValidateReturn(i) ==
    /\ pc[i] = "validate"
    /\ pc' = [pc EXCEPT ![i] = "idle"]
    /\ loc' = [loc EXCEPT ![i] = NoLocal]
    /\ UNCHANGED <<kind, v, last, refreshed, okRefresh, observed>>

\* Refresh: var b bool; err := p.Bind(&b, ...)
RefreshBind(i, p, param) ==
    LET r == Bind(kind, p, param)
    IN  /\ pc[i] = "idle"
        /\ pc' = [pc EXCEPT ![i] = "refresh"]
        /\ loc' = [loc EXCEPT ![i] = r]
        /\ okRefresh' = IF r.err = Nil THEN okRefresh \cup {r.b} ELSE okRefresh
        /\ UNCHANGED <<kind, v, last, refreshed, observed>>

\* Refresh: if err != nil { return err }
RefreshFail(i) ==
    /\ pc[i] = "refresh"
    /\ loc[i].err # Nil
    /\ pc' = [pc EXCEPT ![i] = "idle"]
    /\ loc' = [loc EXCEPT ![i] = NoLocal]
    /\ UNCHANGED <<kind, v, last, refreshed, okRefresh, observed>>

\* Refresh: x.v.Store(b); return nil
RefreshStore(i) ==
    /\ pc[i] = "refresh"
    /\ loc[i].err = Nil
    /\ v' = loc[i].b
    /\ pc' = [pc EXCEPT ![i] = "idle"]
    /\ loc' = [loc EXCEPT ![i] = NoLocal]
    /\ UNCHANGED <<kind, last, refreshed, okRefresh, observed>>

ConcInit ==
    /\ DyncInit
    /\ pc = [i \in Procs |-> "idle"]
    /\ loc = [i \in Procs |-> NoLocal]
    /\ okRefresh = {}
    /\ observed = {}
    /\ ArgIdle
    /\ OptIdle
    /\ AppIdle

ConcNext ==
    \/ \E i \in Procs : ValueLoad(i) /\ UNCHANGED argVars /\ UNCHANGED optVars /\ UNCHANGED appVars
    \/ \E i \in Procs, p \in PropSources, param \in BindParams(kind) :
          ValidateBind(i, p, param) /\ UNCHANGED argVars /\ UNCHANGED optVars /\ UNCHANGED appVars
    \/ \E i \in Procs : ValidateReturn(i) /\ UNCHANGED argVars /\ UNCHANGED optVars /\ UNCHANGED appVars
    \/ \E i \in Procs, p \in PropSources, param \in BindParams(kind) :
          RefreshBind(i, p, param) /\ UNCHANGED argVars /\ UNCHANGED optVars /\ UNCHANGED appVars
    \/ \E i \in Procs : RefreshFail(i) /\ UNCHANGED argVars /\ UNCHANGED optVars /\ UNCHANGED appVars
    \/ \E i \in Procs : RefreshStore(i) /\ UNCHANGED argVars /\ UNCHANGED optVars /\ UNCHANGED appVars

SpecConc == ConcInit /\ [][ConcNext]_vars

\* C3: under any interleaving of Refresh, Validate and Value on one holder, every
\* Value() has returned the zero value or a value that a Refresh which had already
\* begun bound successfully; never the value of a failed Refresh or of a Validate.
C3_ValueOnlyFromRefresh ==
    observed \subseteq ({Zero(kind)} \cup okRefresh)

\* Value() has returned a refreshed value while another Refresh and a Validate,
\* holding values never stored, are in flight.
C3_Witness ==
    /\ \E x \in observed : x # Zero(kind)
    /\ \E i \in Procs : pc[i] = "validate" /\ loc[i].b \notin observed
    /\ \E i \in Procs : pc[i] = "refresh" /\ loc[i].err # Nil /\ loc[i].b \notin observed

(***************************************************************************)
(* core.ArgList: reflect types, function signatures and arguments          *)
(***************************************************************************)
MaxParams == 2   \* declared parameters before the variadic one (receiver included)
MaxArgs == 2     \* Args in an ArgList

\* A reflect.Type: its Kind() and, for a slice, the kind of its Elem().
T(k) == [kind |-> k, elem |-> ""]

SliceOf(k) == [kind |-> "slice", elem |-> k]

Elem(t) == T(t.elem)

NoType == T("")

\* IsValueType(v.Kind()): scalars and structs are bound, everything else is wired.
IsValueType(k) == k \in {"bool", "int", "string", "struct"}

\* A function's reflect.Type: In(0..NumIn()-1), IsVariadic(), NumOut().
Func(in, variadic, numOut) ==
    [kind |-> "func", in |-> in, variadic |-> variadic, numOut |-> numOut]

NumIn(fnType) == Len(fnType.in)

\* fnType.In(i) panics when i is out of range.
InRange(fnType, i) == 0 <= i /\ i < NumIn(fnType)

In(fnType, i) == fnType.in[i + 1]

NoFn == Func(<<>>, FALSE, 0)

\* func NewArgList(fnType, withReceiver, args) *ArgList
NewArgList(fnType, withReceiver, args) ==
    [fnType |-> fnType, withReceiver |-> withReceiver, args |-> args]

NoArgList == NewArgList(NoFn, FALSE, <<>>)

NoCond == "nil"

\* An Arg is a tag string or an *OptionArg.
StrArg(tag) ==
    [isOption |-> FALSE, tag |-> tag, cond |-> NoCond, fn |-> NoFn, argList |-> NoArgList]

\* func validOptionFunc(fnType) bool
validOptionFuncAnyOut(fnType) == fnType.kind = "func"

validOptionFunc(fnType) == fnType.kind = "func" /\ fnType.numOut = 1

\* func NewOptionArg(fn, strArgs ...string) *OptionArg: fn stands for
\* reflect.TypeOf(fn); the constructor panics on a function it does not accept
\* and then returns no OptionArg.
NewOptionArg(fn, strArgs) ==
    IF ~validOptionFunc(fn)
    THEN [panic |-> TRUE, arg |-> StrArg("")]
    ELSE [panic |-> FALSE,
          arg |-> [isOption |-> TRUE, tag |-> "", cond |-> NoCond, fn |-> fn,
                   argList |-> NewArgList(fn, FALSE,
                                          [j \in 1..Len(strArgs) |-> StrArg(strArgs[j])])]]

\* func (arg *OptionArg) WithCondition(cond) *OptionArg
WithCondition(arg, cond) == [arg EXCEPT !.cond = cond]

(***************************************************************************)
(* The beanAssembly that Get is handed                                     *)
(***************************************************************************)
Conds == {"profile:on", "profile:off"}

\* Matches(cond): the condition evaluator's answer.
Matches(cond) == cond = "profile:on"

Tags == {"", "${a}", "${missing}"}

\* BindStructField(v, str, opt): nil, or the binder's error for a missing property.
BindStructField(tag) == IF tag = "${missing}" THEN "PropertyNotFoundError" ELSE Nil

(***************************************************************************)
(* ArgList.Get                                                             *)
(***************************************************************************)
\* What Get and its callees did, in order.  path is the Arg's index in its
\* ArgList, below the index of the OptionArg that owns that ArgList.
Ev(ev, path, typ, tag, ins) ==
    [ev |-> ev, path |-> path, typ |-> typ, tag |-> tag, ins |-> ins]

\* A reflect.Value: the zero Value is not valid.
Val(typ, how, tag, ins) ==
    [valid |-> TRUE, typ |-> typ, how |-> how, tag |-> tag, ins |-> ins]

InvalidValue == [valid |-> FALSE, typ |-> NoType, how |-> "", tag |-> "", ins |-> <<>>]

Panicked(trace) == [panic |-> TRUE, val |-> InvalidValue, trace |-> trace]

Returned(val, trace) == [panic |-> FALSE, val |-> val, trace |-> trace]

RECURSIVE GetLoop(_, _, _, _)
RECURSIVE getArgValue(_, _, _, _)
RECURSIVE call(_, _, _)

\* Get, lines 57-63: the parameters that Args can stand for.
numInOf(argList) ==
    NumIn(argList.fnType) - (IF argList.withReceiver THEN 1 ELSE 0)

\* Get, lines 71 and 85: the Arg at index i falls into the variadic slot.
inVariadic(argList, i) ==
    argList.fnType.variadic /\ i >= numInOf(argList) - 1

\* Get, lines 71-83: the index handed to fnType.In for the Arg at index i.
paramIndexNoReceiver(argList, i) ==
    IF inVariadic(argList, i) THEN numInOf(argList) - 1 ELSE i

paramIndex(argList, i) ==
    IF inVariadic(argList, i)
    THEN IF argList.withReceiver THEN numInOf(argList) ELSE numInOf(argList) - 1
    ELSE IF argList.withReceiver THEN i + 1 ELSE i

\* getArgValue, case string (lines 107-120).
getStringArgKeepsEmptyTag(t, tag, path, trace) ==
    IF IsValueType(t.kind)
    THEN LET tr == Append(trace, Ev("bind", path, t, tag, <<>>))
         IN  IF BindStructField(tag) # Nil
             THEN Panicked(tr)
             ELSE Returned(Val(t, "bind", tag, <<>>), tr)
    ELSE Returned(Val(t, "wire", tag, <<>>), Append(trace, Ev("wire", path, t, tag, <<>>)))

getStringArg(t, tag, path, trace) ==
    IF IsValueType(t.kind)
    THEN LET tArg == IF tag = "" THEN "${}" ELSE tag
             tr == Append(trace, Ev("bind", path, t, tArg, <<>>))
         IN  IF BindStructField(tArg) # Nil
             THEN Panicked(tr)                        \* util.Panic(err).When(err != nil)
             ELSE Returned(Val(t, "bind", tArg, <<>>), tr)
    ELSE Returned(Val(t, "wire", tag, <<>>), Append(trace, Ev("wire", path, t, tag, <<>>)))

\* func (argList *ArgList) getArgValue(t, arg, assembly, fileLine) reflect.Value
getArgValue(t, arg, path, trace) ==
    IF arg.isOption
    THEN call(arg, path, trace)
    ELSE getStringArg(t, arg.tag, path, trace)

\* fnValue.Call(in) panics unless in fits the function's parameters.
CallAccepts(fnType, in) ==
    /\ IF fnType.variadic
       THEN Len(in) >= NumIn(fnType) - 1
       ELSE Len(in) = NumIn(fnType)
    /\ \A k \in 1..Len(in) : in[k].valid

\* func (arg *OptionArg) call(assembly) reflect.Value
callIgnoringCond(arg, path, trace) ==
    LET in == GetLoop(arg.argList, 0, path, [panic |-> FALSE, vals |-> <<>>, trace |-> trace])
    IN  IF in.panic \/ ~CallAccepts(arg.fn, in.vals)
        THEN Panicked(in.trace)
        ELSE Returned(Val(T("option"), "call", "", in.vals),
                      Append(in.trace, Ev("call", path, NoType, "", in.vals)))

call(arg, path, trace) ==
    LET tr == IF arg.cond = NoCond THEN trace
              ELSE Append(trace, Ev("matches", path, NoType, arg.cond, <<>>))
    IN  IF arg.cond = NoCond \/ Matches(arg.cond)
        THEN LET in == GetLoop(arg.argList, 0, path, [panic |-> FALSE, vals |-> <<>>, trace |-> tr])
             IN  IF in.panic \/ ~CallAccepts(arg.fn, in.vals)
                 THEN Panicked(in.trace)
                 ELSE Returned(Val(T("option"), "call", "", in.vals),
                               Append(in.trace, Ev("call", path, NoType, "", in.vals)))
        ELSE Returned(InvalidValue, tr)

\* Get, lines 68-94: the loop over argList.args from index i on; acc is the result
\* so far.  Indexes are Go's, from 0.
GetLoop(argList, i, path, acc) ==
    IF acc.panic \/ i >= Len(argList.args)
    THEN acc
    ELSE IF ~InRange(argList.fnType, paramIndex(argList, i))
         THEN [acc EXCEPT !.panic = TRUE]
         ELSE LET it == In(argList.fnType, paramIndex(argList, i))
                  t == IF inVariadic(argList, i) THEN Elem(it) ELSE it
                  here == Append(path, i)
                  r == getArgValue(t, argList.args[i + 1], here,
                                   Append(acc.trace, Ev("param", here, t, "", <<>>)))
              IN  IF r.panic
                  THEN [panic |-> TRUE, vals |-> acc.vals, trace |-> r.trace]
                  ELSE GetLoop(argList, i + 1, path,
                               [panic |-> FALSE,
                                vals |-> IF inVariadic(argList, i) /\ ~r.val.valid
                                         THEN acc.vals
                                         ELSE Append(acc.vals, r.val),
                                trace |-> r.trace])

\* func (argList *ArgList) Get(assembly, fileLine) []reflect.Value
Get(al) ==
    LET r == GetLoop(al, 0, <<>>, [panic |-> FALSE, vals |-> <<>>, trace |-> <<>>])
    IN  [outcome |-> IF r.panic THEN "panic" ELSE "returned",
         result |-> r.vals, trace |-> r.trace]

NoGet == [outcome |-> "none", result |-> <<>>, trace |-> <<>>]

(***************************************************************************)
(* The ArgLists resolved (SpecArg)                                         *)
(***************************************************************************)
SeqsUpTo(S, n) == UNION {[1..k -> S] : k \in 0..n}

ParamTypes == {T("int"), T("ptr")}

VariadicTypes == {SliceOf("int"), SliceOf("func")}

\* The signatures of the functions whose arguments are resolved.
FnTypes ==
    {Func(fixed, FALSE, 1) : fixed \in SeqsUpTo(ParamTypes, MaxParams)}
        \cup {Func(Append(fixed, slice), TRUE, 1) :
                 fixed \in SeqsUpTo(ParamTypes, MaxParams), slice \in VariadicTypes}

\* Option functions and the tags bound to their parameters.
OptionFuncs ==
    {<<Func(<<T("int")>>, FALSE, 1), <<"${a}">>>>,
     <<Func(<<T("int")>>, FALSE, 1), <<"${missing}">>>>,
     <<Func(<<T("ptr")>>, FALSE, 1), <<>>>>,
     <<Func(<<SliceOf("ptr")>>, TRUE, 1), <<"", "${a}">>>>}

OptionArgs ==
    {NewOptionArg(o[1], o[2]).arg : o \in OptionFuncs}
        \cup {WithCondition(NewOptionArg(o[1], o[2]).arg, c) : o \in OptionFuncs, c \in Conds}

ArgPool == {StrArg(tag) : tag \in Tags} \cup OptionArgs

\* A receiver is the function's first declared parameter.
HasReceiverSlot(fnType) ==
    NumIn(fnType) - (IF fnType.variadic THEN 1 ELSE 0) >= 1

DoNewArgList ==
    /\ got.outcome = "none"
    /\ curArgList = NoArgList
    /\ \E fnType \in FnTypes, withReceiver \in BOOLEAN, args \in SeqsUpTo(ArgPool, MaxArgs) :
          /\ withReceiver => HasReceiverSlot(fnType)
          /\ curArgList' = NewArgList(fnType, withReceiver, args)
    /\ UNCHANGED got

DoGet ==
    /\ curArgList # NoArgList
    /\ got' = Get(curArgList)
    /\ UNCHANGED curArgList

ArgInit ==
    /\ DyncInit
    /\ kind = "bool"
    /\ ConcIdle
    /\ curArgList = NoArgList
    /\ got = NoGet
    /\ OptIdle
    /\ AppIdle

ArgNext ==
    \/ DoNewArgList /\ UNCHANGED dyncVars /\ UNCHANGED concVars /\ UNCHANGED optVars /\ UNCHANGED appVars
    \/ DoGet /\ UNCHANGED dyncVars /\ UNCHANGED concVars /\ UNCHANGED optVars /\ UNCHANGED appVars

SpecArg == ArgInit /\ [][ArgNext]_vars

(***************************************************************************)
(* Properties of ArgList.Get (SpecArg)                                     *)
(***************************************************************************)
Returned0 == got.outcome = "returned"

ArgIndexes == 0..(Len(curArgList.args) - 1)

ArgAt(i) == curArgList.args[i + 1]

\* The Arg a path names, and the ArgList that holds it.
ArgAtPath(path) ==
    IF Len(path) = 1 THEN ArgAt(path[1]) ELSE ArgAt(path[1]).argList.args[path[2] + 1]

OwnerOf(path) ==
    IF Len(path) = 1 THEN curArgList ELSE ArgAt(path[1]).argList

Events(kinds, path) ==
    {k \in DOMAIN got.trace : got.trace[k].ev \in kinds /\ got.trace[k].path = path}

\* Everything done for the Args of the OptionArg at index i.
OwnEvents(i) ==
    {k \in DOMAIN got.trace : Len(got.trace[k].path) = 2 /\ got.trace[k].path[1] = i}

CondHolds(arg) == arg.cond = NoCond \/ Matches(arg.cond)

\* OptionArg.call was entered for the Arg at index i, and came back.
Entered(i) == Events({"param"}, <<i>>) # {}

CameBack(i) ==
    Returned0 \/ \E k \in DOMAIN got.trace : got.trace[k].path[1] > i

\* The values resolved from the own ArgList of the OptionArg at index i, in order.
OwnValues(i) ==
    LET IsOwn(e) == Len(e.path) = 2 /\ e.path[1] = i /\ e.ev \in {"bind", "wire"}
        own == SelectSeq(got.trace, IsOwn)
    IN  [j \in 1..Len(own) |-> Val(own[j].typ, own[j].ev, own[j].tag, <<>>)]

\* C6 as claimed: an OptionArg whose Condition is false leaves no entry in Get's
\* result, whatever its position: the result holds valid values only, one for
\* each other Arg.
C6_FalseOptionOmittedEverywhere ==
    Returned0 =>
        /\ \A k \in DOMAIN got.result : got.result[k].valid
        /\ Len(got.result) = Cardinality({i \in ArgIndexes : ~(ArgAt(i).isOption /\ ~CondHolds(ArgAt(i)))})

\* C7 as claimed: the option function is invoked exactly once if and only if the
\* Condition is absent or matches.
C7_InvokedIffCondition ==
    \A i \in ArgIndexes :
        (ArgAt(i).isOption /\ Entered(i)) =>
            (Cardinality(Events({"call"}, <<i>>)) = 1 <=> CondHolds(ArgAt(i)))

\* C7, amended: the option function is invoked at most once and only if the
\* Condition is absent or matches; when the Condition holds and call comes back, it
\* was invoked exactly once, with the values resolved from its own ArgList, and its
\* return value is the resolved argument; when resolving its own ArgList panics or
\* yields arguments the function does not accept, it is not invoked; when the
\* Condition is false it is not invoked and none of its own Args is resolved.
C7_OptionCall ==
    \A i \in ArgIndexes :
        (ArgAt(i).isOption /\ Entered(i)) =>
            LET calls == Events({"call"}, <<i>>)
            IN  /\ Cardinality(calls) <= 1
                /\ calls # {} => CondHolds(ArgAt(i))
                /\ \A k \in calls : got.trace[k].ins = OwnValues(i)
                /\ (CondHolds(ArgAt(i)) /\ CameBack(i)) => Cardinality(calls) = 1
                /\ (CondHolds(ArgAt(i)) /\ Returned0) =>
                       \E k \in DOMAIN got.result :
                           got.result[k] = Val(T("option"), "call", "", OwnValues(i))
                /\ ~CondHolds(ArgAt(i)) => OwnEvents(i) = {}

\* Get returned with an option invoked on two resolved values, beside an option
\* whose Condition is false.
C7_Witness ==
    /\ Returned0
    /\ \E i \in ArgIndexes :
          /\ ArgAt(i).isOption
          /\ ArgAt(i).cond # NoCond
          /\ \E k \in Events({"call"}, <<i>>) : Len(got.trace[k].ins) = 2
    /\ \E i \in ArgIndexes : ArgAt(i).isOption /\ ~CondHolds(ArgAt(i))

\* The declared parameter that the Arg at index i of an ArgList stands for: the
\* parameters are those after the receiver, the last one is the variadic slot.
DeclaredParams(al) ==
    SubSeq(al.fnType.in, IF al.withReceiver THEN 2 ELSE 1, Len(al.fnType.in))

HasParameter(al, i) ==
    al.fnType.variadic \/ i + 1 <= Len(DeclaredParams(al))

ExpectedType(al, i) ==
    LET declared == DeclaredParams(al)
        slot == Len(declared)
    IN  IF al.fnType.variadic /\ i + 1 >= slot
        THEN Elem(declared[slot])
        ELSE declared[i + 1]

\* C8: every Arg that Get resolves is resolved against one declared parameter: the
\* one at its own index, after the receiver, before the variadic slot, and the
\* element type of the variadic parameter from the slot on; when Get returns, every
\* Arg has been resolved so exactly once.
C8_ArgToParameter ==
    /\ \A k \in DOMAIN got.trace :
          got.trace[k].ev = "param" =>
              LET path == got.trace[k].path
              IN  /\ HasParameter(OwnerOf(path), path[Len(path)])
                  /\ got.trace[k].typ = ExpectedType(OwnerOf(path), path[Len(path)])
                  /\ Cardinality(Events({"param"}, path)) = 1
    /\ Returned0 => \A i \in ArgIndexes : Cardinality(Events({"param"}, <<i>>)) = 1

\* A method with a fixed parameter and a variadic one: an Arg before the slot and
\* an Arg in it.
C8_Witness ==
    /\ Returned0
    /\ curArgList.withReceiver
    /\ curArgList.fnType.variadic
    /\ Len(curArgList.args) = 2
    /\ NumIn(curArgList.fnType) = 3
    /\ \E k \in Events({"param"}, <<0>>) : got.trace[k].typ = In(curArgList.fnType, 1)
    /\ \E k \in Events({"param"}, <<1>>) : got.trace[k].typ = Elem(In(curArgList.fnType, 2))

\* C9: a tag string is dispatched by the parameter type alone: for a value type one
\* BindStructField with the tag, "${}" for the empty tag, and no WireStructField;
\* for any other type one WireStructField with the tag as given, and no
\* BindStructField.
C9_TagDispatch ==
    \A k \in DOMAIN got.trace :
        LET e == got.trace[k]
        IN  (e.ev = "param" /\ ~ArgAtPath(e.path).isOption) =>
                LET tag == ArgAtPath(e.path).tag
                    done == Events({"bind", "wire"}, e.path)
                IN  /\ done = {k + 1}
                    /\ got.trace[k + 1].typ = e.typ
                    /\ IF IsValueType(e.typ.kind)
                       THEN /\ got.trace[k + 1].ev = "bind"
                            /\ got.trace[k + 1].tag = (IF tag = "" THEN "${}" ELSE tag)
                       ELSE /\ got.trace[k + 1].ev = "wire"
                            /\ got.trace[k + 1].tag = tag

\* Get returned after binding the empty tag to a value parameter and wiring the
\* empty tag to a reference parameter.
C9_Witness ==
    /\ Returned0
    /\ \E k \in DOMAIN got.trace :
          got.trace[k].ev = "bind" /\ got.trace[k].tag = "${}" /\ Len(got.trace[k].path) = 1
    /\ \E k \in DOMAIN got.trace :
          got.trace[k].ev = "wire" /\ got.trace[k].tag = "" /\ Len(got.trace[k].path) = 1

\* C10 as claimed: a property-binding failure inside Get comes back to the caller
\* as an error result, never as a panic.
C10_BindFailureReturned ==
    (\E k \in DOMAIN got.trace :
        got.trace[k].ev = "bind" /\ BindStructField(got.trace[k].tag) # Nil)
            => got.outcome = "error"

(***************************************************************************)
(* NewOptionArg and WithCondition (SpecOption)                             *)
(***************************************************************************)
MaxMade == 2      \* OptionArgs kept
MaxStrArgs == 1   \* strArgs of one NewOptionArg

\* reflect.TypeOf(fn) of a value that is no function.
NonFunc(k) == [kind |-> k, in |-> <<>>, variadic |-> FALSE, numOut |-> 0]

\* What callers hand to NewOptionArg as fn.
Recipes ==
    {NonFunc("int"), NonFunc("struct"),
     Func(<<T("int")>>, FALSE, 0), Func(<<>>, FALSE, 1), Func(<<T("int")>>, FALSE, 1),
     Func(<<SliceOf("ptr")>>, TRUE, 1), Func(<<T("int")>>, FALSE, 2)}

NoAttempt == [op |-> "none", fn |-> NoFn, panic |-> FALSE, before |-> {}]

DoNewOptionArg ==
    \E fn \in Recipes, strArgs \in SeqsUpTo({"${a}"}, MaxStrArgs) :
        LET r == NewOptionArg(fn, strArgs)
        IN  /\ r.panic \/ r.arg \in made \/ Cardinality(made) < MaxMade
            /\ made' = IF r.panic THEN made ELSE made \cup {r.arg}
            /\ attempt' = [op |-> "NewOptionArg", fn |-> fn, panic |-> r.panic,
                           before |-> made]

DoWithCondition ==
    \E arg \in made, cond \in Conds :
        /\ made' = (made \ {arg}) \cup {WithCondition(arg, cond)}
        /\ attempt' = [op |-> "WithCondition", fn |-> arg.fn, panic |-> FALSE,
                       before |-> made]

OptInit ==
    /\ DyncInit
    /\ kind = "bool"
    /\ ConcIdle
    /\ ArgIdle
    /\ made = {}
    /\ attempt = NoAttempt
    /\ AppIdle

OptNext ==
    \/ DoNewOptionArg /\ UNCHANGED dyncVars /\ UNCHANGED concVars /\ UNCHANGED argVars
                      /\ UNCHANGED appVars
    \/ DoWithCondition /\ UNCHANGED dyncVars /\ UNCHANGED concVars /\ UNCHANGED argVars
                       /\ UNCHANGED appVars

SpecOption == OptInit /\ [][OptNext]_vars

\* One return value, of a function.
SingleReturn(fn) == fn.kind = "func" /\ fn.numOut = 1

\* C11: NewOptionArg accepts fn only if it is a function with exactly one return
\* value; for anything else construction panics and no OptionArg is created, so
\* every OptionArg that exists wraps a single-return function.
C11_OnlySingleReturn ==
    /\ \A arg \in made : arg.isOption /\ SingleReturn(arg.fn)
    /\ attempt.op = "NewOptionArg" =>
          /\ attempt.panic <=> ~SingleReturn(attempt.fn)
          /\ attempt.panic => made = attempt.before
          /\ ~attempt.panic => \E arg \in made : arg.fn = attempt.fn

\* A function with two return values has just been refused while an OptionArg exists.
C11_Witness ==
    /\ attempt.op = "NewOptionArg"
    /\ attempt.fn.kind = "func"
    /\ attempt.fn.numOut = 2
    /\ attempt.panic
    /\ made # {}

(***************************************************************************)
(* SpringBoot application: what Start reads                                *)
(***************************************************************************)
MaxBeans == 2     \* beans registered by the user
MaxPending == 1   \* goroutines of beans outstanding at a time

SpringAccess == "spring.access"
SPRING_ACCESS == "SPRING_ACCESS"
SpringProfile == "spring.profile"
SPRING_PROFILE == "SPRING_PROFILE"

AppKeys == {"k", SpringAccess, SPRING_ACCESS, SpringProfile, SPRING_PROFILE}

KV(k, val) == [k |-> k, v |-> val]

\* An element of os.Args: strings.HasPrefix(arg, "-") and arg[1:] (or arg itself).
Flag(text) == [dash |-> TRUE, text |-> text]
Word(text) == [dash |-> FALSE, text |-> text]

ArgVectors ==
    {<<Word("app")>>,
     <<Word("app"), Flag("k"), Word("cmd")>>,
     <<Word("app"), Flag("k"), Flag(SpringProfile), Word("TEST")>>,
     <<Word("app"), Flag(SpringAccess), Word("ALL"), Flag("k"), Word("old"), Flag("k"), Word("cmd")>>}

\* An element of os.Environ(): "name=value", or a string without "=".
EnvVar(name, val) == [name |-> name, value |-> val, eq |-> TRUE]

Environs ==
    {<<>>,
     <<EnvVar("k", "env"), EnvVar("", "x")>>,
     <<EnvVar(SPRING_PROFILE, "Prod"), EnvVar("k", "env"), EnvVar(SPRING_ACCESS, "none")>>}

ProfileNames == {"", "test", "dev", "prod"}

\* A property source: what Load(profile) returns, in the order the map is ranged over.
NoFiles == [p \in ProfileNames |-> <<>>]

PropertySources ==
    {NoFiles,
     [NoFiles EXCEPT ![""] = <<KV("k", "file")>>, !["test"] = <<KV("k", "pfile")>>],
     [NoFiles EXCEPT ![""] = <<KV(SpringProfile, "Dev"), KV("k", "file")>>,
                     !["dev"] = <<KV("k", "pfile")>>],
     [NoFiles EXCEPT ![""] = <<KV(SpringProfile, "")>>, !["prod"] = <<KV("k", "pfile")>>]}

\* An entry of cfgLocation: "dir", "k8s:name", or another "scheme:name".
Location(scheme, source) == [scheme |-> scheme, source |-> source]

CfgLocations ==
    {<<Location("file", src)>> : src \in PropertySources}
        \cup {<<Location("k8s", src), Location("other", src)>> : src \in PropertySources \ {NoFiles}}

\* A bean: whether it is a CommandLineRunner, an ApplicationEvent, has a destructor.
Bean(runner, event, destructor) ==
    [runner |-> runner, event |-> event, destructor |-> destructor]

BeanKinds == {Bean(TRUE, FALSE, FALSE), Bean(FALSE, TRUE, TRUE), Bean(TRUE, TRUE, FALSE)}

\* What the program is started with: the user's code before Start has set
\* userProps and userProfile and registered beans, in this order.
AppInputs ==
    [args : ArgVectors, env : Environs, cfgLocation : CfgLocations,
     userProps : {<<>>, <<KV("k", "code")>>}, userProfile : {"", "Test"},
     configReady : BOOLEAN, beans : SeqsUpTo(BeanKinds, MaxBeans)]

\* strings.ToLower on the strings that occur.
ToLower(str) ==
    CASE str \in {"TEST", "Test"} -> "test"
      [] str = "Dev" -> "dev"
      [] str = "Prod" -> "prod"
      [] str = "ALL" -> "all"
      [] OTHER -> str

(***************************************************************************)
(* ApplicationContext                                                      *)
(***************************************************************************)
NoProps == [key \in AppKeys |-> Absent]

\* SetProperty(key, value): later calls for a key override earlier ones.
SetProperty(p, key, val) == [p EXCEPT ![key] = val]

RECURSIVE SetProperties(_, _)
SetProperties(p, kvs) ==
    IF kvs = <<>> THEN p
    ELSE SetProperties(SetProperty(p, Head(kvs).k, Head(kvs).v), Tail(kvs))

\* SpringCore.GetStringProperty(ctx, keys...): the first of keys that is set, or "".
GetStringProperty(p, keys) ==
    LET set == SelectSeq(keys, LAMBDA key : p[key] # Absent)
    IN  IF set = <<>> THEN "" ELSE p[Head(set)]

\* CollectBeans(&slice): the wired beans assignable to the element type, in
\* registration order (beans are named by their position).
CollectBeans(beans, type) ==
    SelectSeq([i \in 1..Len(beans) |-> i],
              LAMBDA i : IF type = "CommandLineRunner" THEN beans[i].runner ELSE beans[i].event)

\* Close(): runs the destructor hooks of the beans; the beans it has closed.
Close(beans) == {i \in 1..Len(beans) : beans[i].destructor}

\* A call made by Start or ShutDown: the callee, its arguments, the step making it.
Rec(op, a, b, by) == [op |-> op, a |-> a, b |-> b, by |-> by, bean |-> 0]

\* A call of a method of the bean at position i.
BeanCall(op, i, b, by) == [op |-> op, a |-> "", b |-> b, by |-> by, bean |-> i]

SetCalls(kvs, by) == [j \in 1..Len(kvs) |-> Rec("SetProperty", kvs[j].k, kvs[j].v, by)]

(***************************************************************************)
(* application.Start                                                       *)
(***************************************************************************)
\* The statements of Start, in program order (loadConfigFiles is three).
StartOrderWiresFirst ==
    <<"loadCmdArgs", "loadSystemEnv", "loadDefault", "setProfile", "loadProfile",
      "RegisterBean", "AutoWireBeans", "prepare", "collectRunners", "Run",
      "collectEvents", "OnStartApplication", "started">>

StartOrder ==
    <<"loadCmdArgs", "loadSystemEnv", "loadDefault", "setProfile", "loadProfile",
      "prepare", "RegisterBean", "AutoWireBeans", "collectRunners", "Run",
      "collectEvents", "OnStartApplication", "started">>

After(stmt) ==
    StartOrder[1 + CHOOSE j \in 1..(Len(StartOrder) - 1) : StartOrder[j] = stmt]

\* loadCmdArgs, lines 125-135: the SetProperty calls for os.Args from index i on.
RECURSIVE CmdPairs(_, _)
CmdPairs(args, i) ==
    IF i > Len(args) THEN <<>>
    ELSE IF ~args[i].dash THEN CmdPairs(args, i + 1)
    ELSE IF i < Len(args) /\ ~args[i + 1].dash
         THEN <<KV(args[i].text, args[i + 1].text)>> \o CmdPairs(args, i + 2)
         ELSE <<KV(args[i].text, "")>> \o CmdPairs(args, i + 1)

\* loadSystemEnv, lines 141-147.
EnvPairs(env) ==
    LET named == SelectSeq(env, LAMBDA e : e.eq /\ e.name # "")
    IN  [j \in 1..Len(named) |-> KV(named[j].name, named[j].value)]

\* loadProfileConfig, lines 169-186: the Load calls and the SetProperty calls.
RECURSIVE ProfileConfigCalls(_, _, _)
ProfileConfigCalls(locations, prof, by) ==
    IF locations = <<>> THEN <<>>
    ELSE LET location == Head(locations)
             mine == IF location.scheme \in {"file", "k8s"}
                     THEN <<Rec("Load", location.scheme, prof, by)>>
                              \o SetCalls(location.source[prof], by)
                     ELSE <<>>
         IN  mine \o ProfileConfigCalls(Tail(locations), prof, by)

\* The properties after a sequence of calls.
RECURSIVE Apply(_, _)
Apply(p, cs) ==
    IF cs = <<>> THEN p
    ELSE Apply(IF Head(cs).op = "SetProperty" THEN SetProperty(p, Head(cs).a, Head(cs).b) ELSE p,
               Tail(cs))

Step(stmt, made_calls) ==
    /\ appPc = stmt
    /\ appPc' = After(stmt)
    /\ appLog' = appLog \o made_calls
    /\ props' = Apply(props, made_calls)
    /\ UNCHANGED appIn

StartLoadCmdArgs ==
    /\ Step("loadCmdArgs", SetCalls(CmdPairs(appIn.args, 1), "loadCmdArgs"))
    /\ UNCHANGED <<profile, collected, idx, closed, pending>>

StartLoadSystemEnv ==
    /\ Step("loadSystemEnv", SetCalls(EnvPairs(appIn.env), "loadSystemEnv"))
    /\ UNCHANGED <<profile, collected, idx, closed, pending>>

\* loadConfigFiles, line 154
StartLoadDefault ==
    /\ Step("loadDefault", ProfileConfigCalls(appIn.cfgLocation, "", "loadDefault"))
    /\ UNCHANGED <<profile, collected, idx, closed, pending>>

\* loadConfigFiles, lines 157-160
StartSetProfileAsGiven ==
    LET prof == GetStringProperty(props, <<SpringProfile, SPRING_PROFILE>>)
    IN  /\ IF prof # ""
           THEN Step("setProfile", <<Rec("SetProfile", prof, "", "setProfile")>>)
                /\ profile' = prof
           ELSE Step("setProfile", <<>>) /\ UNCHANGED profile
        /\ UNCHANGED <<collected, idx, closed, pending>>

StartSetProfile ==
    LET prof == GetStringProperty(props, <<SpringProfile, SPRING_PROFILE>>)
    IN  /\ IF prof # ""
           THEN Step("setProfile", <<Rec("SetProfile", ToLower(prof), "", "setProfile")>>)
                /\ profile' = ToLower(prof)
           ELSE Step("setProfile", <<>>) /\ UNCHANGED profile
        /\ UNCHANGED <<collected, idx, closed, pending>>

\* loadConfigFiles, lines 163-165
StartLoadProfile ==
    /\ IF profile # ""
       THEN Step("loadProfile",
                 ProfileConfigCalls(appIn.cfgLocation, ToLower(profile), "loadProfile"))
       ELSE Step("loadProfile", <<>>)
    /\ UNCHANGED <<profile, collected, idx, closed, pending>>

\* prepare, lines 190-202
StartPrepare ==
    LET access == GetStringProperty(props, <<SpringAccess, SPRING_ACCESS>>)
        setAccess == IF access # ""
                     THEN <<Rec("SetAllAccess", IF ToLower(access) = "all" THEN "true" ELSE "false",
                                "", "prepare")>>
                     ELSE <<>>
        ready == IF appIn.configReady THEN <<Rec("configReady", "", "", "prepare")>> ELSE <<>>
    IN  /\ Step("prepare", setAccess \o ready)
        /\ UNCHANGED <<profile, collected, idx, closed, pending>>

\* Start, lines 96-98
StartRegisterBean ==
    /\ Step("RegisterBean", <<Rec("RegisterBean", "appCtx", "", "Start")>>)
    /\ UNCHANGED <<profile, collected, idx, closed, pending>>

\* Start, line 101
StartAutoWireBeans ==
    /\ Step("AutoWireBeans", <<Rec("AutoWireBeans", "", "", "Start")>>)
    /\ UNCHANGED <<profile, collected, idx, closed, pending>>

\* Start, lines 104-105
StartCollectRunners ==
    LET runners == CollectBeans(appIn.beans, "CommandLineRunner")
    IN  /\ appPc = "collectRunners"
        /\ collected' = runners
        /\ idx' = 0
        /\ appLog' = Append(appLog, Rec("CollectBeans", "CommandLineRunner", "", "Start"))
        /\ appPc' = IF runners = <<>> THEN After("Run") ELSE After("collectRunners")
        /\ UNCHANGED <<appIn, props, profile, closed, pending>>

\* A method of a bean may start goroutines the application waits for.
Spawned == {n \in {pending, pending + 1} : n <= MaxPending}

\* One iteration of a loop over collected: the bean, and where the loop goes.
Iterate(stmt, next) ==
    /\ appPc = stmt
    /\ idx < Len(collected)
    /\ idx' = IF idx + 1 = Len(collected) THEN 0 ELSE idx + 1
    /\ appPc' = IF idx + 1 = Len(collected) THEN next ELSE stmt
    /\ pending' \in Spawned

StartRunBackwards ==
    /\ Iterate("Run", After("Run"))
    /\ appLog' = Append(appLog, BeanCall("Run", collected[Len(collected) - idx], "", "Start"))
    /\ UNCHANGED <<appIn, props, profile, collected, closed>>

\* Start, lines 107-109
StartRun ==
    /\ Iterate("Run", After("Run"))
    /\ appLog' = Append(appLog, BeanCall("Run", collected[idx + 1], "", "Start"))
    /\ UNCHANGED <<appIn, props, profile, collected, closed>>

\* Start, lines 112-113
StartCollectEvents ==
    LET eventBeans == CollectBeans(appIn.beans, "ApplicationEvent")
    IN  /\ appPc = "collectEvents"
        /\ collected' = eventBeans
        /\ idx' = 0
        /\ appLog' = Append(appLog, Rec("CollectBeans", "ApplicationEvent", "", "Start"))
        /\ appPc' = IF eventBeans = <<>> THEN After("OnStartApplication")
                    ELSE After("collectEvents")
        /\ UNCHANGED <<appIn, props, profile, closed, pending>>

\* Start, lines 115-117
StartOnStartApplication ==
    /\ Iterate("OnStartApplication", After("OnStartApplication"))
    /\ appLog' = Append(appLog, BeanCall("OnStartApplication", collected[idx + 1], "", "Start"))
    /\ UNCHANGED <<appIn, props, profile, collected, closed>>

\* A goroutine started by a bean finishes.
TaskDone ==
    /\ pending > 0
    /\ pending' = pending - 1
    /\ UNCHANGED <<appIn, appPc, props, profile, appLog, collected, idx, closed>>

(***************************************************************************)
(* application.ShutDown                                                    *)
(***************************************************************************)
\* The statements of ShutDown, in program order.
ShutDownOrderStopsFirst ==
    <<"collectStop", "OnStopApplication", "Close", "Wait", "waiting", "exited">>

ShutDownOrder ==
    <<"Close", "collectStop", "OnStopApplication", "Wait", "waiting", "exited">>

AfterStop(stmt) ==
    ShutDownOrder[1 + CHOOSE j \in 1..(Len(ShutDownOrder) - 1) : ShutDownOrder[j] = stmt]

\* BootStarter.Exit calls ShutDown on the started application.
ShutDown ==
    /\ appPc = "started"
    /\ appPc' = ShutDownOrder[1]
    /\ UNCHANGED <<appIn, props, profile, appLog, collected, idx, closed, pending>>

\* ShutDown, line 208: Close runs the destructors of the beans.
ShutDownClose ==
    /\ appPc = "Close"
    /\ closed' = Close(appIn.beans)
    /\ appLog' = Append(appLog, Rec("Close", "", "", "ShutDown"))
    /\ appPc' = AfterStop("Close")
    /\ UNCHANGED <<appIn, props, profile, collected, idx, pending>>

\* ShutDown, lines 211-212
ShutDownCollect ==
    LET eventBeans == CollectBeans(appIn.beans, "ApplicationEvent")
    IN  /\ appPc = "collectStop"
        /\ collected' = eventBeans
        /\ idx' = 0
        /\ appLog' = Append(appLog, Rec("CollectBeans", "ApplicationEvent", "", "ShutDown"))
        /\ appPc' = IF eventBeans = <<>> THEN AfterStop("OnStopApplication")
                    ELSE AfterStop("collectStop")
        /\ UNCHANGED <<appIn, props, profile, closed, pending>>

\* ShutDown, lines 214-216
ShutDownOnStopApplication ==
    /\ Iterate("OnStopApplication", AfterStop("OnStopApplication"))
    /\ appLog' = Append(appLog,
                        BeanCall("OnStopApplication", collected[idx + 1],
                                 IF collected[idx + 1] \in closed THEN "closed" ELSE "open",
                                 "ShutDown"))
    /\ UNCHANGED <<appIn, props, profile, collected, closed>>

\* ShutDown, line 219: the call of Wait
ShutDownWait ==
    /\ appPc = "Wait"
    /\ appLog' = Append(appLog, Rec("Wait", "", "", "ShutDown"))
    /\ appPc' = AfterStop("Wait")
    /\ UNCHANGED <<appIn, props, profile, collected, idx, closed, pending>>

\* Wait returns when no goroutine of the application is outstanding.
WaitReturn ==
    /\ appPc = "waiting"
    /\ pending = 0
    /\ appPc' = AfterStop("waiting")
    /\ UNCHANGED <<appIn, props, profile, appLog, collected, idx, closed, pending>>

(***************************************************************************)
(* The application: user code, then Start, then ShutDown                   *)
(***************************************************************************)
AppInit ==
    /\ DyncInit
    /\ kind = "bool"
    /\ ConcIdle
    /\ ArgIdle
    /\ OptIdle
    /\ appIn \in AppInputs
    /\ appPc = StartOrder[1]
    /\ props = SetProperties(NoProps, appIn.userProps)
    /\ profile = appIn.userProfile
    /\ appLog = SetCalls(appIn.userProps, "user")
    /\ collected = <<>>
    /\ idx = 0
    /\ closed = {}
    /\ pending = 0

\* Start and ShutDown leave everything outside the application alone.
AppOnly ==
    UNCHANGED dyncVars /\ UNCHANGED concVars /\ UNCHANGED argVars /\ UNCHANGED optVars

AppNext ==
    \/ StartLoadCmdArgs /\ AppOnly
    \/ StartLoadSystemEnv /\ AppOnly
    \/ StartLoadDefault /\ AppOnly
    \/ StartSetProfile /\ AppOnly
    \/ StartLoadProfile /\ AppOnly
    \/ StartPrepare /\ AppOnly
    \/ StartRegisterBean /\ AppOnly
    \/ StartAutoWireBeans /\ AppOnly
    \/ StartCollectRunners /\ AppOnly
    \/ StartRun /\ AppOnly
    \/ StartCollectEvents /\ AppOnly
    \/ StartOnStartApplication /\ AppOnly
    \/ TaskDone /\ AppOnly
    \/ ShutDown /\ AppOnly
    \/ ShutDownClose /\ AppOnly
    \/ ShutDownCollect /\ AppOnly
    \/ ShutDownOnStopApplication /\ AppOnly
    \/ ShutDownWait /\ AppOnly
    \/ WaitReturn /\ AppOnly

SpecApp == AppInit /\ [][AppNext]_vars

\* Positions of the calls of op in the log.
CallsOf(op) == {j \in 1..Len(appLog) : appLog[j].op = op}

\* Start has returned (ShutDown may be under way).
Started == appPc = "started" \/ \E j \in 1..Len(ShutDownOrder) : ShutDownOrder[j] = appPc

ConfigOps == {"SetProperty", "SetProfile", "SetAllAccess", "RegisterBean"}

BeanOps == {"CollectBeans", "Run", "OnStartApplication"}

\* C12: Start calls AutoWireBeans exactly once; every SetProperty, SetProfile,
\* SetAllAccess and RegisterBean call Start makes comes before that call, every
\* CollectBeans, Run and OnStartApplication call comes after it; the access
\* mode is set at most once, and never after wiring.
C12_WiringOnce ==
    LET wire == CallsOf("AutoWireBeans")
    IN  /\ Cardinality(wire) <= 1
        /\ Started => Cardinality(wire) = 1
        /\ \A j \in 1..Len(appLog) :
              /\ (appLog[j].op \in ConfigOps /\ appLog[j].by # "user") =>
                     \A w \in wire : j < w
              /\ (appLog[j].op \in BeanOps /\ appLog[j].by = "Start") =>
                     \E w \in wire : w < j
        /\ Cardinality(CallsOf("SetAllAccess")) <= 1

C12_Witness ==
    /\ appPc = "started"
    /\ CallsOf("SetAllAccess") # {}
    /\ CallsOf("SetProfile") # {}
    /\ CallsOf("Run") # {}
    /\ CallsOf("OnStartApplication") # {}

\* The sources of configuration in the priority order documented in Start
\* (1 code before Start, 2 command line, 3 environment, 4 configuration files),
\* by the steps that write them.
Priority == <<{"user"}, {"loadCmdArgs"}, {"loadSystemEnv"}, {"loadDefault", "loadProfile"}>>

\* The SetProperty calls for key made by the source of priority n.
Supplies(n, key) ==
    {j \in CallsOf("SetProperty") : appLog[j].a = key /\ appLog[j].by \in Priority[n]}

\* The value the source of priority n supplies for key: its last one.
Supplied(n, key) ==
    appLog[CHOOSE j \in Supplies(n, key) : \A i \in Supplies(n, key) : i <= j].b

\* C13: after Start, a key supplied by several sources holds the value of the
\* highest-priority source that supplied it (1 code, 2 command line,
\* 3 environment, 4 configuration files).
C13_HighestPriorityWins ==
    Started =>
        \A key \in AppKeys : \A n \in 1..Len(Priority) :
            (Supplies(n, key) # {} /\ \A m \in 1..(n - 1) : Supplies(m, key) = {}) =>
                props[key] = Supplied(n, key)

\* The statement stmt of Start has been executed.
Past(stmt) ==
    \/ Started
    \/ \E j \in 1..Len(StartOrder) :
           StartOrder[j] = appPc /\ \E i \in 1..(j - 1) : StartOrder[i] = stmt

\* The Load calls made by a step of loadConfigFiles.
LoadsBy(by) == {j \in CallsOf("Load") : appLog[j].by = by}

\* The SetProperty calls for key made by a step.
SuppliesBy(by, key) ==
    {j \in CallsOf("SetProperty") : appLog[j].a = key /\ appLog[j].by = by}

\* C17: loadConfigFiles always loads the default (profile-less) configuration
\* before the profile is decided; a non-empty spring.profile / SPRING_PROFILE
\* property replaces the profile set by user code, lower-cased, an empty one
\* leaves it; the profile's configuration is loaded afterwards exactly when the
\* resulting profile is non-empty, and its values override the default ones.
C17_ProfileConfig ==
    /\ Past("loadDefault") =>
          /\ LoadsBy("loadDefault") # {}
          /\ \A d \in LoadsBy("loadDefault") : appLog[d].b = ""
    /\ \A d \in 1..Len(appLog) : appLog[d].by = "loadDefault" =>
          \A j \in CallsOf("SetProfile") \cup LoadsBy("loadProfile") : d < j
    /\ \A j \in CallsOf("SetProfile") : \A p \in LoadsBy("loadProfile") : j < p
    /\ appPc = "loadProfile" =>
          LET prop == GetStringProperty(props, <<SpringProfile, SPRING_PROFILE>>)
          IN  IF prop # ""
              THEN /\ profile = ToLower(prop)
                   /\ \E j \in CallsOf("SetProfile") : appLog[j].a = ToLower(prop)
              ELSE /\ profile = appIn.userProfile
                   /\ CallsOf("SetProfile") = {}
    /\ Past("loadProfile") =>
          /\ LoadsBy("loadProfile") # {} <=> profile # ""
          /\ \A p \in LoadsBy("loadProfile") : appLog[p].b = ToLower(profile)
          /\ \A key \in AppKeys :
                SuppliesBy("loadProfile", key) # {} =>
                    \E j \in SuppliesBy("loadProfile", key) : props[key] = appLog[j].b

C17_Witness ==
    /\ Past("loadProfile")
    /\ appIn.userProfile # ""
    /\ CallsOf("SetProfile") # {}
    /\ profile # appIn.userProfile
    /\ SuppliesBy("loadDefault", "k") # {}
    /\ SuppliesBy("loadProfile", "k") # {}
    /\ props["k"] = "pfile"

\* The beans a method was called on, in the order of the calls.
CalledOn(op) ==
    LET made_calls == SelectSeq(appLog, LAMBDA c : c.op = op)
    IN  [j \in 1..Len(made_calls) |-> made_calls[j].bean]

IsPrefix(s, t) == Len(s) <= Len(t) /\ \A j \in 1..Len(s) : s[j] = t[j]

\* C16: Start calls Run exactly once on every collected CommandLineRunner, in
\* the order CollectBeans returns them (registration order); all Run calls are
\* made before the first OnStartApplication; every collected ApplicationEvent
\* bean then gets OnStartApplication exactly once.
C16_RunnersThenEvents ==
    LET runners == CollectBeans(appIn.beans, "CommandLineRunner")
        eventBeans == CollectBeans(appIn.beans, "ApplicationEvent")
    IN  /\ IsPrefix(CalledOn("Run"), runners)
        /\ (Past("Run") \/ CallsOf("OnStartApplication") # {}) => CalledOn("Run") = runners
        /\ \A r \in CallsOf("Run") : \A o \in CallsOf("OnStartApplication") : r < o
        /\ \A i \in 1..Len(appIn.beans) :
              Cardinality({o \in CallsOf("OnStartApplication") : appLog[o].bean = i})
                  <= (IF appIn.beans[i].event THEN 1 ELSE 0)
        /\ Started => CalledOn("OnStartApplication") = eventBeans

C16_Witness ==
    /\ appPc = "started"
    /\ Len(CalledOn("Run")) = 2
    /\ CalledOn("OnStartApplication") # <<>>

\* The calls ShutDown has made.
ShutDownCalls == {j \in 1..Len(appLog) : appLog[j].by = "ShutDown"}

\* C14: ShutDown calls Close first, then OnStopApplication once on every
\* collected ApplicationEvent bean, and Wait last; it returns only after Wait
\* has returned, when no asynchronous work of the beans is outstanding.
C14_ShutDownOrder ==
    LET eventBeans == CollectBeans(appIn.beans, "ApplicationEvent")
    IN  /\ Cardinality(CallsOf("Close")) <= 1
        /\ Cardinality(CallsOf("Wait")) <= 1
        /\ ShutDownCalls # {} => \E c \in CallsOf("Close") : \A j \in ShutDownCalls : c <= j
        /\ IsPrefix(CalledOn("OnStopApplication"), eventBeans)
        /\ \A w \in CallsOf("Wait") :
              /\ w = Len(appLog)
              /\ CalledOn("OnStopApplication") = eventBeans
        /\ appPc = "exited" => (CallsOf("Wait") # {} /\ pending = 0)

C14_Witness ==
    /\ appPc = "exited"
    /\ Len(CalledOn("OnStopApplication")) = 2

\* C15: no bean is used after it has been closed: ShutDown does not call
\* OnStopApplication on a bean whose destructor Close has already run.
C15_NoUseAfterClose ==
    \A j \in CallsOf("OnStopApplication") : appLog[j].b = "open"

====
